---------------------------- MODULE Spec2Model ----------------------------
(***************************************************************************)
(* Model of the Hindu scripture advisor backend: the text classifier and   *)
(* response cleaner of utils.py and the request handlers of                *)
(* fastapi_app.py.                                                         *)
(*                                                                         *)
(* A Python str is a sequence of one-character strings.  The regular       *)
(* expressions of clean_response_text are modelled by left-to-right,       *)
(* non-overlapping scans that replace what re.sub replaces.                *)
(***************************************************************************)
EXTENDS Integers, Sequences, FiniteSets, TLC

VARIABLES
    text,        \* cleaner: the input text
    out1,        \* cleaner: clean_response_text(text)
    out2,        \* cleaner: clean_response_text(out1)
    cpc,         \* cleaner: "init" | "once" | "twice"
    query,       \* classifier: a query string
    other,       \* classifier: a second query string
    labels,      \* classifier: the three labels of query
    labelsOther, \* classifier: the three labels of other
    qpc,         \* classifier: "init" | "done"
    GROQ_API_KEY,\* server: whether the auxiliary-model API key is set
    store,       \* server: the message log of every session (the history store)
    chat,        \* server: the POST /chat request in flight, if any
    response,    \* server: the response sent last (none once a new chat arrives)
    cleared      \* server: sessions cleared by a DELETE and not chatted in since

cleanVars == <<text, out1, out2, cpc>>
classifyVars == <<query, other, labels, labelsOther, qpc>>
serverVars == <<GROQ_API_KEY, store, chat, response, cleared>>
vars == <<cleanVars, classifyVars, serverVars>>

(***************************************************************************)
(* Bounds                                                                  *)
(***************************************************************************)
\* The longest text handed to the cleaner.
MaxLen == 5

\* The number of vocabulary fragments a classifier query is built from.
MaxWords == 2

\* The number of question/answer turns a session log holds.
MaxTurns == 1

(***************************************************************************)
(* Characters                                                              *)
(***************************************************************************)
\* The bullet glyph U+2022 written by clean_response_text.
BULLET == "U+2022"

NL == "\n"

\* \s of the re module and str.strip(), over the characters of the model.
IsSpace(c) == c \in {" ", "\t", "\n"}

\* [A-Z]
IsUpper(c) == c \in {"A","B","C","D","E","F","G","H","I","J","K","L","M",
                     "N","O","P","Q","R","S","T","U","V","W","X","Y","Z"}

\* s[i..] has pat as a prefix.
MatchAt(s, pat, i) ==
    /\ i + Len(pat) - 1 <= Len(s)
    /\ \A k \in 1..Len(pat) : s[i + k - 1] = pat[k]

\* s[a..b], empty when b < a.
Slice(s, a, b) == IF b < a THEN <<>> ELSE SubSeq(s, a, b)

\* ^ under re.MULTILINE: the start of the text or right after a newline.
AtLineStart(s, i) == i = 1 \/ s[i - 1] = NL

\* The last index of the maximal run of \s starting at i (i - 1 when empty).
RECURSIVE SpaceRunEnd(_, _)
SpaceRunEnd(s, i) ==
    IF i <= Len(s) /\ IsSpace(s[i]) THEN SpaceRunEnd(s, i + 1) ELSE i - 1

\* The last index of the maximal run of [ \t] starting at i.
RECURSIVE BlankRunEnd(_, _)
BlankRunEnd(s, i) ==
    IF i <= Len(s) /\ s[i] \in {" ", "\t"} THEN BlankRunEnd(s, i + 1) ELSE i - 1

\* The last index of the maximal run of [^*] starting at i.
RECURSIVE NonStarRunEnd(_, _)
NonStarRunEnd(s, i) ==
    IF i <= Len(s) /\ s[i] # "*" THEN NonStarRunEnd(s, i + 1) ELSE i - 1

\* The positions of the newlines of s[a..b].
NewlinesIn(s, a, b) == {k \in a..b : s[k] = NL}

SetMax(S) == CHOOSE m \in S : \A k \in S : k <= m

(***************************************************************************)
(* clean_response_text, step by step                                       *)
(***************************************************************************)
\* str.replace(pat, rep) from position i on.
RECURSIVE ReplaceFrom(_, _, _, _)
ReplaceFrom(s, pat, rep, i) ==
    IF i > Len(s) THEN <<>>
    ELSE IF MatchAt(s, pat, i)
         THEN rep \o ReplaceFrom(s, pat, rep, i + Len(pat))
         ELSE <<s[i]>> \o ReplaceFrom(s, pat, rep, i + 1)

Replace(s, pat, rep) == ReplaceFrom(s, pat, rep, 1)

\* text.replace('***', '**'); .replace('****', '**'); .replace('*****', '**')
FixAsterisks(s) ==
    Replace(Replace(Replace(s, <<"*","*","*">>, <<"*","*">>),
                    <<"*","*","*","*">>, <<"*","*">>),
            <<"*","*","*","*","*">>, <<"*","*">>)

\* re.sub(r'^\*\*\*([^*])', r'<bullet> \1', text, flags=re.MULTILINE)
RECURSIVE FixBulletsFrom(_, _)
FixBulletsFrom(s, i) ==
    IF i > Len(s) THEN <<>>
    ELSE IF /\ AtLineStart(s, i)
            /\ MatchAt(s, <<"*","*","*">>, i)
            /\ i + 3 <= Len(s)
            /\ s[i + 3] # "*"
         THEN <<BULLET, " ", s[i + 3]>> \o FixBulletsFrom(s, i + 4)
         ELSE <<s[i]>> \o FixBulletsFrom(s, i + 1)

FixBullets(s) == FixBulletsFrom(s, 1)

\* re.sub(r'\n\s*\n\s*\n+', '\n\n', text): a newline followed by a run of \s
\* holding two more newlines matches up to the last newline of the run.
RECURSIVE CollapseBreaksFrom(_, _)
CollapseBreaksFrom(s, i) ==
    IF i > Len(s) THEN <<>>
    ELSE LET e  == SpaceRunEnd(s, i + 1)
             ns == NewlinesIn(s, i + 1, e)
         IN  IF s[i] = NL /\ Cardinality(ns) >= 2
             THEN <<NL, NL>> \o CollapseBreaksFrom(s, SetMax(ns) + 1)
             ELSE <<s[i]>> \o CollapseBreaksFrom(s, i + 1)

CollapseBreaks(s) == CollapseBreaksFrom(s, 1)

\* re.sub(r'[ \t]+', ' ', text)
RECURSIVE CollapseSpacesFrom(_, _)
CollapseSpacesFrom(s, i) ==
    IF i > Len(s) THEN <<>>
    ELSE IF s[i] \in {" ", "\t"}
         THEN <<" ">> \o CollapseSpacesFrom(s, BlankRunEnd(s, i) + 1)
         ELSE <<s[i]>> \o CollapseSpacesFrom(s, i + 1)

CollapseSpaces(s) == CollapseSpacesFrom(s, 1)

\* re.sub(r'^\s+', '', text, flags=re.MULTILINE): \s+ also takes newlines.
RECURSIVE StripLineStartsFrom(_, _)
StripLineStartsFrom(s, i) ==
    IF i > Len(s) THEN <<>>
    ELSE IF AtLineStart(s, i) /\ IsSpace(s[i])
         THEN StripLineStartsFrom(s, SpaceRunEnd(s, i) + 1)
         ELSE <<s[i]>> \o StripLineStartsFrom(s, i + 1)

StripLineStarts(s) == StripLineStartsFrom(s, 1)

\* re.sub(r'\*\*\s*\*\*', '**', text)
RECURSIVE FixEmptyBoldFrom(_, _)
FixEmptyBoldFrom(s, i) ==
    IF i > Len(s) THEN <<>>
    ELSE IF /\ MatchAt(s, <<"*","*">>, i)
            /\ MatchAt(s, <<"*","*">>, SpaceRunEnd(s, i + 2) + 1)
         THEN <<"*","*">> \o FixEmptyBoldFrom(s, SpaceRunEnd(s, i + 2) + 3)
         ELSE <<s[i]>> \o FixEmptyBoldFrom(s, i + 1)

FixEmptyBold(s) == FixEmptyBoldFrom(s, 1)

\* re.sub(r'\*\*([^*]+)\*\*\*', r'**\1**', text)
RECURSIVE FixTrailingStarFrom(_, _)
FixTrailingStarFrom(s, i) ==
    IF i > Len(s) THEN <<>>
    ELSE LET e == NonStarRunEnd(s, i + 2)
         IN  IF /\ MatchAt(s, <<"*","*">>, i)
                /\ e >= i + 2
                /\ MatchAt(s, <<"*","*","*">>, e + 1)
             THEN <<"*","*">> \o Slice(s, i + 2, e) \o <<"*","*">>
                      \o FixTrailingStarFrom(s, e + 4)
             ELSE <<s[i]>> \o FixTrailingStarFrom(s, i + 1)

FixTrailingStar(s) == FixTrailingStarFrom(s, 1)

\* re.sub(r'\.([A-Z])', r'. \1', text)
RECURSIVE SentenceSpacingFrom(_, _)
SentenceSpacingFrom(s, i) ==
    IF i > Len(s) THEN <<>>
    ELSE IF s[i] = "." /\ i + 1 <= Len(s) /\ IsUpper(s[i + 1])
         THEN <<".", " ", s[i + 1]>> \o SentenceSpacingFrom(s, i + 2)
         ELSE <<s[i]>> \o SentenceSpacingFrom(s, i + 1)

SentenceSpacing(s) == SentenceSpacingFrom(s, 1)

\* str.strip()
RECURSIVE LStrip(_)
LStrip(s) == IF s # <<>> /\ IsSpace(Head(s)) THEN LStrip(Tail(s)) ELSE s

RECURSIVE RStrip(_)
RStrip(s) ==
    IF s # <<>> /\ IsSpace(s[Len(s)]) THEN RStrip(Slice(s, 1, Len(s) - 1)) ELSE s

Strip(s) == RStrip(LStrip(s))

clean_response_text(s) ==
    IF s = <<>> THEN s
    ELSE Strip(SentenceSpacing(FixTrailingStar(FixEmptyBold(
            StripLineStarts(CollapseSpaces(CollapseBreaks(
                FixBullets(FixAsterisks(s)))))))))

(***************************************************************************)
(* The keyword tables of utils.py, in declaration order                    *)
(***************************************************************************)
\* utils.py: FORMATTING_KEYWORDS
FORMATTING_KEYWORDS == <<
    <<"t","a","b","l","e">>,  \* table
    <<"t","a","b","u","l","a","r">>,  \* tabular
    <<"c","h","a","r","t">>,  \* chart
    <<"f","o","r","m","a","t">>,  \* format
    <<"l","i","s","t">>,  \* list
    <<"b","u","l","l","e","t">>,  \* bullet
    <<"p","o","i","n","t","s">>,  \* points
    <<"i","t","e","m","i","z","e">>,  \* itemize
    <<"e","n","u","m","e","r","a","t","e">>,  \* enumerate
    <<"i","n"," ","a"," ","t","a","b","l","e">>,  \* in a table
    <<"a","s"," ","a"," ","t","a","b","l","e">>   \* as a table
>>

\* utils.py extract_spiritual_concept: the ordered table concepts
concepts == <<
    \* "dharma": "dharma", "duty", "righteousness"
    [name |-> <<"d","h","a","r","m","a">>,
     kws  |-> << <<"d","h","a","r","m","a">>,
              <<"d","u","t","y">>,
              <<"r","i","g","h","t","e","o","u","s","n","e","s","s">> >>],
    \* "karma": "karma", "action", "consequence", "karma yoga"
    [name |-> <<"k","a","r","m","a">>,
     kws  |-> << <<"k","a","r","m","a">>,
              <<"a","c","t","i","o","n">>,
              <<"c","o","n","s","e","q","u","e","n","c","e">>,
              <<"k","a","r","m","a"," ","y","o","g","a">> >>],
    \* "moksha": "moksha", "liberation", "salvation", "enlightenment"
    [name |-> <<"m","o","k","s","h","a">>,
     kws  |-> << <<"m","o","k","s","h","a">>,
              <<"l","i","b","e","r","a","t","i","o","n">>,
              <<"s","a","l","v","a","t","i","o","n">>,
              <<"e","n","l","i","g","h","t","e","n","m","e","n","t">> >>],
    \* "atman": "atman", "soul", "self"
    [name |-> <<"a","t","m","a","n">>,
     kws  |-> << <<"a","t","m","a","n">>,
              <<"s","o","u","l">>,
              <<"s","e","l","f">> >>],
    \* "brahman": "brahman", "ultimate reality", "absolute truth"
    [name |-> <<"b","r","a","h","m","a","n">>,
     kws  |-> << <<"b","r","a","h","m","a","n">>,
              <<"u","l","t","i","m","a","t","e"," ","r","e","a","l","i","t","y">>,
              <<"a","b","s","o","l","u","t","e"," ","t","r","u","t","h">> >>],
    \* "yoga": "yoga", "meditation", "union", "asanas"
    [name |-> <<"y","o","g","a">>,
     kws  |-> << <<"y","o","g","a">>,
              <<"m","e","d","i","t","a","t","i","o","n">>,
              <<"u","n","i","o","n">>,
              <<"a","s","a","n","a","s">> >>],
    \* "bhakti": "bhakti", "devotion", "bhakti yoga"
    [name |-> <<"b","h","a","k","t","i">>,
     kws  |-> << <<"b","h","a","k","t","i">>,
              <<"d","e","v","o","t","i","o","n">>,
              <<"b","h","a","k","t","i"," ","y","o","g","a">> >>],
    \* "jnana": "jnana", "knowledge", "wisdom", "jnana yoga"
    [name |-> <<"j","n","a","n","a">>,
     kws  |-> << <<"j","n","a","n","a">>,
              <<"k","n","o","w","l","e","d","g","e">>,
              <<"w","i","s","d","o","m">>,
              <<"j","n","a","n","a"," ","y","o","g","a">> >>],
    \* "seva": "seva", "selfless service"
    [name |-> <<"s","e","v","a">>,
     kws  |-> << <<"s","e","v","a">>,
              <<"s","e","l","f","l","e","s","s"," ","s","e","r","v","i","c","e">> >>],
    \* "reincarnation": "reincarnation", "rebirth", "samsara"
    [name |-> <<"r","e","i","n","c","a","r","n","a","t","i","o","n">>,
     kws  |-> << <<"r","e","i","n","c","a","r","n","a","t","i","o","n">>,
              <<"r","e","b","i","r","t","h">>,
              <<"s","a","m","s","a","r","a">> >>],
    \* "maya": "maya", "illusion", "worldly illusion"
    [name |-> <<"m","a","y","a">>,
     kws  |-> << <<"m","a","y","a">>,
              <<"i","l","l","u","s","i","o","n">>,
              <<"w","o","r","l","d","l","y"," ","i","l","l","u","s","i","o","n">> >>],
    \* "nirvana": "nirvana", "spiritual liberation"
    [name |-> <<"n","i","r","v","a","n","a">>,
     kws  |-> << <<"n","i","r","v","a","n","a">>,
              <<"s","p","i","r","i","t","u","a","l"," ","l","i","b","e","r","a","t","i","o","n">> >>],
    \* "guna": "guna", "qualities", "modes of nature"
    [name |-> <<"g","u","n","a">>,
     kws  |-> << <<"g","u","n","a">>,
              <<"q","u","a","l","i","t","i","e","s">>,
              <<"m","o","d","e","s"," ","o","f"," ","n","a","t","u","r","e">> >>],
    \* "sanskara": "sanskara", "impressions", "mental imprints"
    [name |-> <<"s","a","n","s","k","a","r","a">>,
     kws  |-> << <<"s","a","n","s","k","a","r","a">>,
              <<"i","m","p","r","e","s","s","i","o","n","s">>,
              <<"m","e","n","t","a","l"," ","i","m","p","r","i","n","t","s">> >>],
    \* "sattva": "sattva", "purity", "goodness"
    [name |-> <<"s","a","t","t","v","a">>,
     kws  |-> << <<"s","a","t","t","v","a">>,
              <<"p","u","r","i","t","y">>,
              <<"g","o","o","d","n","e","s","s">> >>],
    \* "rajas": "rajas", "passion", "activity"
    [name |-> <<"r","a","j","a","s">>,
     kws  |-> << <<"r","a","j","a","s">>,
              <<"p","a","s","s","i","o","n">>,
              <<"a","c","t","i","v","i","t","y">> >>],
    \* "tamas": "tamas", "ignorance", "darkness"
    [name |-> <<"t","a","m","a","s">>,
     kws  |-> << <<"t","a","m","a","s">>,
              <<"i","g","n","o","r","a","n","c","e">>,
              <<"d","a","r","k","n","e","s","s">> >>]
>>

\* utils.py extract_life_problem: the ordered table problems
problems == <<
    \* "stress": "stress", "tension", "anxiety", "worry", "overwhelmed", "pressure"
    [name |-> <<"s","t","r","e","s","s">>,
     kws  |-> << <<"s","t","r","e","s","s">>,
              <<"t","e","n","s","i","o","n">>,
              <<"a","n","x","i","e","t","y">>,
              <<"w","o","r","r","y">>,
              <<"o","v","e","r","w","h","e","l","m","e","d">>,
              <<"p","r","e","s","s","u","r","e">> >>],
    \* "anger": "anger", "frustration", "irritation", "rage", "resentment"
    [name |-> <<"a","n","g","e","r">>,
     kws  |-> << <<"a","n","g","e","r">>,
              <<"f","r","u","s","t","r","a","t","i","o","n">>,
              <<"i","r","r","i","t","a","t","i","o","n">>,
              <<"r","a","g","e">>,
              <<"r","e","s","e","n","t","m","e","n","t">> >>],
    \* "grief": "grief", "loss", "sadness", "sorrow", "bereavement", "heartbreak"
    [name |-> <<"g","r","i","e","f">>,
     kws  |-> << <<"g","r","i","e","f">>,
              <<"l","o","s","s">>,
              <<"s","a","d","n","e","s","s">>,
              <<"s","o","r","r","o","w">>,
              <<"b","e","r","e","a","v","e","m","e","n","t">>,
              <<"h","e","a","r","t","b","r","e","a","k">> >>],
    \* "purpose": "purpose", "meaning of life", "direction", "aim", "goal", "why am i here", "lack of direction"
    [name |-> <<"p","u","r","p","o","s","e">>,
     kws  |-> << <<"p","u","r","p","o","s","e">>,
              <<"m","e","a","n","i","n","g"," ","o","f"," ","l","i","f","e">>,
              <<"d","i","r","e","c","t","i","o","n">>,
              <<"a","i","m">>,
              <<"g","o","a","l">>,
              <<"w","h","y"," ","a","m"," ","i"," ","h","e","r","e">>,
              <<"l","a","c","k"," ","o","f"," ","d","i","r","e","c","t","i","o","n">> >>],
    \* "fear": "fear", "insecurity", "doubt", "apprehension", "courage", "hesitation"
    [name |-> <<"f","e","a","r">>,
     kws  |-> << <<"f","e","a","r">>,
              <<"i","n","s","e","c","u","r","i","t","y">>,
              <<"d","o","u","b","t">>,
              <<"a","p","p","r","e","h","e","n","s","i","o","n">>,
              <<"c","o","u","r","a","g","e">>,
              <<"h","e","s","i","t","a","t","i","o","n">> >>],
    \* "relationships": "relationship", "family", "friends", "love", "conflict", "breakup", "marriage", "loneliness", "social issues"
    [name |-> <<"r","e","l","a","t","i","o","n","s","h","i","p","s">>,
     kws  |-> << <<"r","e","l","a","t","i","o","n","s","h","i","p">>,
              <<"f","a","m","i","l","y">>,
              <<"f","r","i","e","n","d","s">>,
              <<"l","o","v","e">>,
              <<"c","o","n","f","l","i","c","t">>,
              <<"b","r","e","a","k","u","p">>,
              <<"m","a","r","r","i","a","g","e">>,
              <<"l","o","n","e","l","i","n","e","s","s">>,
              <<"s","o","c","i","a","l"," ","i","s","s","u","e","s">> >>],
    \* "suffering": "suffering", "pain", "hardship", "adversity", "misery", "struggle"
    [name |-> <<"s","u","f","f","e","r","i","n","g">>,
     kws  |-> << <<"s","u","f","f","e","r","i","n","g">>,
              <<"p","a","i","n">>,
              <<"h","a","r","d","s","h","i","p">>,
              <<"a","d","v","e","r","s","i","t","y">>,
              <<"m","i","s","e","r","y">>,
              <<"s","t","r","u","g","g","l","e">> >>],
    \* "decision making": "decision", "choice", "dilemma", "confused", "uncertainty", "indecision"
    [name |-> <<"d","e","c","i","s","i","o","n"," ","m","a","k","i","n","g">>,
     kws  |-> << <<"d","e","c","i","s","i","o","n">>,
              <<"c","h","o","i","c","e">>,
              <<"d","i","l","e","m","m","a">>,
              <<"c","o","n","f","u","s","e","d">>,
              <<"u","n","c","e","r","t","a","i","n","t","y">>,
              <<"i","n","d","e","c","i","s","i","o","n">> >>],
    \* "materialism": "materialism", "attachment", "desire", "greed"
    [name |-> <<"m","a","t","e","r","i","a","l","i","s","m">>,
     kws  |-> << <<"m","a","t","e","r","i","a","l","i","s","m">>,
              <<"a","t","t","a","c","h","m","e","n","t">>,
              <<"d","e","s","i","r","e">>,
              <<"g","r","e","e","d">> >>],
    \* "ego": "ego", "pride", "self-importance", "arrogance"
    [name |-> <<"e","g","o">>,
     kws  |-> << <<"e","g","o">>,
              <<"p","r","i","d","e">>,
              <<"s","e","l","f","-","i","m","p","o","r","t","a","n","c","e">>,
              <<"a","r","r","o","g","a","n","c","e">> >>],
    \* "depression": "depression", "despair", "hopelessness", "melancholy"
    [name |-> <<"d","e","p","r","e","s","s","i","o","n">>,
     kws  |-> << <<"d","e","p","r","e","s","s","i","o","n">>,
              <<"d","e","s","p","a","i","r">>,
              <<"h","o","p","e","l","e","s","s","n","e","s","s">>,
              <<"m","e","l","a","n","c","h","o","l","y">> >>]
>>

\* utils.py extract_scripture_source: the ordered table sources
sources == <<
    \* "bhagavad gita": "bhagavad gita", "gita", "bhagwad geeta"
    [name |-> <<"b","h","a","g","a","v","a","d"," ","g","i","t","a">>,
     kws  |-> << <<"b","h","a","g","a","v","a","d"," ","g","i","t","a">>,
              <<"g","i","t","a">>,
              <<"b","h","a","g","w","a","d"," ","g","e","e","t","a">> >>],
    \* "veda": "veda", "vedas", "rigveda", "yajurveda", "samaveda", "atharvaveda"
    [name |-> <<"v","e","d","a">>,
     kws  |-> << <<"v","e","d","a">>,
              <<"v","e","d","a","s">>,
              <<"r","i","g","v","e","d","a">>,
              <<"y","a","j","u","r","v","e","d","a">>,
              <<"s","a","m","a","v","e","d","a">>,
              <<"a","t","h","a","r","v","a","v","e","d","a">> >>],
    \* "upanishad": "upanishad", "upanishads"
    [name |-> <<"u","p","a","n","i","s","h","a","d">>,
     kws  |-> << <<"u","p","a","n","i","s","h","a","d">>,
              <<"u","p","a","n","i","s","h","a","d","s">> >>],
    \* "purana": "purana", "puranas", "vishnu purana", "bhagavata purana", "garuda purana", "skanda purana"
    [name |-> <<"p","u","r","a","n","a">>,
     kws  |-> << <<"p","u","r","a","n","a">>,
              <<"p","u","r","a","n","a","s">>,
              <<"v","i","s","h","n","u"," ","p","u","r","a","n","a">>,
              <<"b","h","a","g","a","v","a","t","a"," ","p","u","r","a","n","a">>,
              <<"g","a","r","u","d","a"," ","p","u","r","a","n","a">>,
              <<"s","k","a","n","d","a"," ","p","u","r","a","n","a">> >>],
    \* "ramayana": "ramayana", "ramayan", "valmiki ramayana"
    [name |-> <<"r","a","m","a","y","a","n","a">>,
     kws  |-> << <<"r","a","m","a","y","a","n","a">>,
              <<"r","a","m","a","y","a","n">>,
              <<"v","a","l","m","i","k","i"," ","r","a","m","a","y","a","n","a">> >>],
    \* "mahabharata": "mahabharata", "mahabharat"
    [name |-> <<"m","a","h","a","b","h","a","r","a","t","a">>,
     kws  |-> << <<"m","a","h","a","b","h","a","r","a","t","a">>,
              <<"m","a","h","a","b","h","a","r","a","t">> >>],
    \* "yoga sutras": "yoga sutras", "patanjali yoga sutras", "patanjali"
    [name |-> <<"y","o","g","a"," ","s","u","t","r","a","s">>,
     kws  |-> << <<"y","o","g","a"," ","s","u","t","r","a","s">>,
              <<"p","a","t","a","n","j","a","l","i"," ","y","o","g","a"," ","s","u","t","r","a","s">>,
              <<"p","a","t","a","n","j","a","l","i">> >>],
    \* "dharma shastras": "dharma shastras", "manu smriti"
    [name |-> <<"d","h","a","r","m","a"," ","s","h","a","s","t","r","a","s">>,
     kws  |-> << <<"d","h","a","r","m","a"," ","s","h","a","s","t","r","a","s">>,
              <<"m","a","n","u"," ","s","m","r","i","t","i">> >>],
    \* "hatha yoga pradipika": "hatha yoga pradipika"
    [name |-> <<"h","a","t","h","a"," ","y","o","g","a"," ","p","r","a","d","i","p","i","k","a">>,
     kws  |-> << <<"h","a","t","h","a"," ","y","o","g","a"," ","p","r","a","d","i","p","i","k","a">> >>],
    \* "shiva sutras": "shiva sutras"
    [name |-> <<"s","h","i","v","a"," ","s","u","t","r","a","s">>,
     kws  |-> << <<"s","h","i","v","a"," ","s","u","t","r","a","s">> >>],
    \* "brahma sutras": "brahma sutras"
    [name |-> <<"b","r","a","h","m","a"," ","s","u","t","r","a","s">>,
     kws  |-> << <<"b","r","a","h","m","a"," ","s","u","t","r","a","s">> >>],
    \* "vedanta": "vedanta"
    [name |-> <<"v","e","d","a","n","t","a">>,
     kws  |-> << <<"v","e","d","a","n","t","a">> >>]
>>

\* string.punctuation ("U+0060" stands for the grave accent, which a TLA+
\* string cannot hold)
Punctuation == {"!", "\"", "#", "$", "%", "&", "'", "(", ")", "*", "+", ",", "-", ".", "/", ":", ";", "<", "=", ">", "?", "@", "[", "\\", "]", "^", "_", "U+0060", "{", "|", "}", "~"}

(***************************************************************************)
(* The text classifier                                                     *)
(***************************************************************************)
UpperLetters == <<"A","B","C","D","E","F","G","H","I","J","K","L","M",
                  "N","O","P","Q","R","S","T","U","V","W","X","Y","Z">>

LowerLetters == <<"a","b","c","d","e","f","g","h","i","j","k","l","m",
                  "n","o","p","q","r","s","t","u","v","w","x","y","z">>

IsLower(c) == \E i \in 1..26 : LowerLetters[i] = c

LowerChar(c) ==
    IF IsUpper(c) THEN LowerLetters[CHOOSE i \in 1..26 : UpperLetters[i] = c] ELSE c

UpperChar(c) ==
    IF IsLower(c) THEN UpperLetters[CHOOSE i \in 1..26 : LowerLetters[i] = c] ELSE c

\* str.lower()
Lower(s) == IF s = <<>> THEN <<>> ELSE [i \in 1..Len(s) |-> LowerChar(s[i])]

\* query.translate(str.maketrans('', '', string.punctuation))
RECURSIVE RemovePunctuation(_)
RemovePunctuation(s) ==
    IF s = <<>> THEN <<>>
    ELSE IF Head(s) \in Punctuation
         THEN RemovePunctuation(Tail(s))
         ELSE <<Head(s)>> \o RemovePunctuation(Tail(s))

_clean_query(q) == Lower(Strip(RemovePunctuation(q)))

\* k in q
Occurs(k, q) == \E i \in 1..(Len(q) - Len(k) + 1) : MatchAt(q, k, i)

\* any(k in q for k in kws)
AnyOccurs(kws, q) == \E j \in 1..Len(kws) : Occurs(kws[j], q)

\* for category, kws in table.items(): if any(k in q for k in kws): return
\* The index of the entry the loop returns at, 0 when it runs to its end.
RECURSIVE ScanTable(_, _, _)
ScanTable(table, q, i) ==
    IF i > Len(table) THEN 0
    ELSE IF AnyOccurs(table[i].kws, q) THEN i
         ELSE ScanTable(table, q, i + 1)

\* The scan with the table walked from its last entry to its first.
RECURSIVE ScanTableBackwards(_, _, _)
ScanTableBackwards(table, q, i) ==
    IF i < 1 THEN 0
    ELSE IF AnyOccurs(table[i].kws, q) THEN i
         ELSE ScanTableBackwards(table, q, i - 1)

DefaultConcept == <<"g","e","n","e","r","a","l">>
DefaultProblem == <<"g","u","i","d","a","n","c","e">>
DefaultSource  == <<"H","i","n","d","u"," ","s","c","r","i","p","t","u","r","e","s">>

\* The last index of the maximal run of non-whitespace starting at i.
RECURSIVE WordEnd(_, _)
WordEnd(s, i) ==
    IF i <= Len(s) /\ ~IsSpace(s[i]) THEN WordEnd(s, i + 1) ELSE i - 1

\* str.split()
RECURSIVE Split(_)
Split(s) ==
    LET t == LStrip(s)
    IN  IF t = <<>> THEN <<>>
        ELSE <<Slice(t, 1, WordEnd(t, 1))>>
                 \o Split(Slice(t, WordEnd(t, 1) + 1, Len(t)))

\* str.capitalize()
Capitalize(w) ==
    IF w = <<>> THEN <<>> ELSE <<UpperChar(Head(w))>> \o Lower(Tail(w))

\* " ".join(words)
RECURSIVE Join(_)
Join(ws) ==
    IF ws = <<>> THEN <<>>
    ELSE IF Len(ws) = 1 THEN ws[1]
         ELSE ws[1] \o <<" ">> \o Join(Tail(ws))

\* " ".join([w.capitalize() for w in source.split()])
FormatSource(source) ==
    LET ws == Split(source)
    IN  Join([i \in 1..Len(ws) |-> Capitalize(ws[i])])

extract_spiritual_concept_unordered(q) ==
    LET i == ScanTableBackwards(concepts, Lower(q), Len(concepts))
    IN  IF i = 0 THEN DefaultConcept ELSE concepts[i].name

extract_spiritual_concept_nolower(q) ==
    LET i == ScanTable(concepts, q, 1)
    IN  IF i = 0 THEN DefaultConcept ELSE concepts[i].name

extract_spiritual_concept(q) ==
    LET i == ScanTable(concepts, Lower(q), 1)
    IN  IF i = 0 THEN DefaultConcept ELSE concepts[i].name

extract_life_problem(q) ==
    LET i == ScanTable(problems, Lower(q), 1)
    IN  IF i = 0 THEN DefaultProblem ELSE problems[i].name

extract_scripture_source(q) ==
    LET i == ScanTable(sources, Lower(q), 1)
    IN  IF i = 0 THEN DefaultSource ELSE FormatSource(sources[i].name)

contains_table_request(q) == AnyOccurs(FORMATTING_KEYWORDS, Lower(q))

\* The three classification fields handle_chat extracts from a query.
Classify(q) ==
    [spiritual_concept |-> extract_spiritual_concept(q),
     life_problem      |-> extract_life_problem(q),
     scripture_source  |-> extract_scripture_source(q)]

(***************************************************************************)
(* The request handlers of fastapi_app.py: values                          *)
(***************************************************************************)
\* ChatRequest.session_id = None
None == "None"

\* A value that is not a str (and is truthy): clean_response_text raises on it.
NonText == <<"<not a str>">>

IsStr(v) == v # NonText

\* The session ids callers supply, the ids uuid4 generates, and all of them.
SuppliedIds == {"s1", "s2"}
GeneratedIds == {"session_0f"}
Sessions == SuppliedIds \cup GeneratedIds

\* The queries of the chat requests: "karma LIST" and "om".
ChatQueries == {<<"k","a","r","m","a"," ","L","I","S","T">>, <<"o","m">>}

\* ChatRequest: query, session_id (None by default), format_table.
\* The requests of the chat pipeline: every query, either value of
\* format_table, a supplied session id or none.
ChatRequests ==
    [query : ChatQueries,
     session_id : {"s1", None},
     format_table : BOOLEAN]

\* The requests of the session traffic: every supplied session id, none and
\* the empty one, with one query.
SessionChatRequests ==
    [query : {<<"o","m">>},
     session_id : SuppliedIds \cup {None, ""},
     format_table : {FALSE}]

\* extract_spiritual_concept, extract_life_problem and
\* extract_scripture_source of each query of the model.
Classification == [q \in ChatQueries |-> Classify(q)]

NoRequest == [query |-> <<>>, session_id |-> None, format_table |-> FALSE]

\* The names of the auxiliary models and the literal "N/A".
SuggestionModels == {"llama", "mixtral", "gemma"}
NA == <<"N","/","A">>

\* suggestions = {"llama": "N/A", "mixtral": "N/A", "gemma": "N/A"}
DefaultSuggestions == [m \in SuggestionModels |-> NA]

\* rag_result.get("answer", "Could not retrieve from knowledge base.")
DefaultAnswer ==
    <<"C","o","u","l","d"," ","n","o","t"," ","r","e","t","r","i","e","v","e"," ",
      "f","r","o","m"," ","k","n","o","w","l","e","d","g","e"," ","b","a","s","e",".">>

\* What the retrieval chain answers: "Om.Shanti".
RawAnswer == <<"O","m",".","S","h","a","n","t","i">>

\* What the merge step answers: "**Om***".
MergedAnswer == <<"*","*","O","m","*","*","*">>

\* How conversational_qa_chain.invoke ends: it raises; it answers and appends
\* the turn to the session log; it answers in history-less mode; its result
\* has no "answer" key; its answer is not a str.
ChainOutcomes == {"raise", "answer", "answer_unsaved", "no_answer", "not_text"}

\* How cached_groq_answers ends: it raises, it returns something that is not a
\* dict, or it returns a mapping from every model name to a value.
AggregatorOutcomes == {"raise", "not_dict", "all_answered", "some_unavailable"}

\* The mappings cached_groq_answers returns: every model answered "ok "; or
\* one answered, one is unavailable and one value is not a str.
AggregatorResult(outcome) ==
    IF outcome = "all_answered"
    THEN [m \in SuggestionModels |-> <<"o","k"," ">>]
    ELSE [m \in SuggestionModels |->
            CASE m = "llama" -> <<"*","*","*","o","k">>
              [] m = "mixtral" -> NA
              [] OTHER -> NonText]

\* How merge_groq_and_rag_answers ends.
MergeOutcomes == {"raise", "text", "not_text"}

\* rag_result.get("answer", default) for a chain that did not raise.
RagAnswer(outcome) ==
    CASE outcome \in {"answer", "answer_unsaved"} -> RawAnswer
      [] outcome = "no_answer" -> DefaultAnswer
      [] OTHER -> NonText

\* The texts the handlers clean: what the outbound calls of the model answer
\* and what the session logs hold.
HandlerTexts ==
    {RawAnswer, DefaultAnswer, MergedAnswer, NA, <<"o","k"," ">>,
     <<"*","*","*","o","k">>} \cup ChatQueries

\* clean_response_text of each of these texts.
CleanedText == [t \in HandlerTexts |-> clean_response_text(t)]

\* contains_table_request of each query of the model.
TableRequested == [q \in ChatQueries |-> contains_table_request(q)]

\* clean_suggestions: str values are cleaned, other values pass through.
clean_suggestions(suggestions) ==
    [k \in DOMAIN suggestions |->
        IF IsStr(suggestions[k]) THEN CleanedText[suggestions[k]]
        ELSE suggestions[k]]

\* A session id generated whatever the request supplies.
AlwaysGenerated(supplied, generated) == generated

\* session_id = request.session_id or f"session_{uuid.uuid4().hex}"
EffectiveSessionId(supplied, generated) ==
    IF supplied \in {None, ""} THEN generated ELSE supplied

\* The tabular flag taken from, or widened by, the request's format_table.
FormatTableField(request) ==
    request.format_table \/ TableRequested[request.query]

\* format_as_table = contains_table_request(effective_query)
FormatAsTable(request) == TableRequested[request.query]

\* The aggregator called whether or not the key is set.
AlwaysInvoked(key) == TRUE

\* if GROQ_API_KEY:
AggregatorInvoked(key) == key

\* What a chat request did: how each outbound step ended ("skipped" when it
\* was not reached), the session id given to the chain and the tabular flag
\* given to the merge step.
NoTrace ==
    [request |-> NoRequest, init |-> "skipped", chain |-> "skipped",
     chain_session |-> None, clean |-> "skipped", aggregator |-> "skipped",
     merge |-> "skipped", want_table |-> FALSE]

\* Some step of the handler raised.
Raised(trace) ==
    \/ trace.init = "raise"
    \/ trace.chain = "raise"
    \/ trace.clean = "raise"
    \/ trace.aggregator \in {"raise", "not_dict"}
    \/ trace.merge \in {"raise", "not_text"}

NoBody == [detail |-> ""]

NoResponse ==
    [kind |-> "none", status |-> 0, session |-> None, body |-> NoBody,
     trace |-> NoTrace, after_clear |-> FALSE]

\* A handler that answers 200 with what it has when a step raised.
ChatResponsePartial(trace, answer, suggestions, session_id) ==
    [kind |-> "chat", status |-> 200, session |-> session_id,
     body |-> IF Raised(trace)
              THEN [answer |-> answer, session_id |-> session_id]
              ELSE [answer |-> answer, suggestions |-> suggestions,
                    session_id |-> session_id],
     trace |-> trace, after_clear |-> FALSE]

\* return {"answer", "suggestions", "session_id"}, or
\* except Exception: raise HTTPException(status_code=500, detail=...)
ChatResponse(trace, answer, suggestions, session_id) ==
    IF Raised(trace)
    THEN [kind |-> "chat", status |-> 500, session |-> session_id,
          body |-> [detail |-> "Internal server error"],
          trace |-> trace, after_clear |-> FALSE]
    ELSE [kind |-> "chat", status |-> 200, session |-> session_id,
          body |-> [answer |-> answer, suggestions |-> suggestions,
                    session_id |-> session_id],
          trace |-> trace, after_clear |-> FALSE]

\* The chat slots: handle_chat suspends once, at "await merge", and touches
\* the session log only before that, so one request in flight shows every
\* interleaving with the history and delete requests.
Slots == {"c1"}

IdleChat ==
    [pc |-> "idle", session_id |-> None, format_as_table |-> FALSE,
     meta |-> [spiritual_concept |-> <<>>, life_problem |-> <<>>,
               scripture_source |-> <<>>],
     rag_answer |-> <<>>, suggestions |-> DefaultSuggestions, trace |-> NoTrace]

(***************************************************************************)
(* The history store (GoogleSheetChatMessageHistory of qa_chain)           *)
(***************************************************************************)
\* history.messages: the rows of the session, in order.
HistoryMessages(st, s) == st[s]

\* history.clear(): every row of the session is deleted.
HistoryClear(st, s) == [st EXCEPT ![s] = <<>>]

\* The chain appends the human/ai turn pair to the session's log.
HistoryAppendTurn(st, s, question, answer) ==
    [st EXCEPT ![s] = @ \o <<[type |-> "human", content |-> question],
                             [type |-> "ai", content |-> answer]>>]

(***************************************************************************)
(* The parts of the state a specification does not exercise                *)
(***************************************************************************)
NoLabels == [spiritual_concept |-> <<>>, life_problem |-> <<>>,
             scripture_source |-> <<>>]

CleanIdle == text = <<>> /\ out1 = <<>> /\ out2 = <<>> /\ cpc = "idle"

ClassifyIdle ==
    /\ query = <<>> /\ other = <<>>
    /\ labels = NoLabels /\ labelsOther = NoLabels
    /\ qpc = "idle"

ServerIdle ==
    /\ GROQ_API_KEY = FALSE
    /\ store = [s \in Sessions |-> <<>>]
    /\ chat = [r \in Slots |-> IdleChat]
    /\ response = NoResponse
    /\ cleared = [s \in Sessions |-> FALSE]

(***************************************************************************)
(* The cleaner applied to bounded texts                                    *)
(***************************************************************************)
Alphabet == {"*", "a", "A", ".", " ", NL}

RECURSIVE TextsOfLen(_)
TextsOfLen(n) ==
    IF n = 0 THEN {<<>>}
    ELSE {Append(t, c) : t \in TextsOfLen(n - 1), c \in Alphabet}

Texts == UNION {TextsOfLen(n) : n \in 0..MaxLen}

InitClean ==
    /\ text \in Texts
    /\ out1 = <<>>
    /\ out2 = <<>>
    /\ cpc = "init"
    /\ ClassifyIdle
    /\ ServerIdle

CleanOnce ==
    /\ cpc = "init"
    /\ out1' = clean_response_text(text)
    /\ cpc' = "once"
    /\ UNCHANGED <<text, out2, classifyVars, serverVars>>

CleanTwice ==
    /\ cpc = "once"
    /\ out2' = clean_response_text(out1)
    /\ cpc' = "twice"
    /\ UNCHANGED <<text, out1, classifyVars, serverVars>>

NextClean == CleanOnce \/ CleanTwice

SpecClean == InitClean /\ [][NextClean]_vars


(***************************************************************************)
(* The classifier applied to bounded queries                               *)
(***************************************************************************)
\* The fragments the queries are built from: keywords of several categories,
\* in both cases, with and without punctuation.
Vocabulary == {
    <<"d","h","a","r","m","a">>,
    <<"D","h","a","r",".","m","a">>,
    <<"K","A","R","M","A"," ">>,
    <<"k","a","r","m","a"," ">>,
    <<"g","r","i","e","f"," ","a","n","g","e","r">>,
    <<"V","e","d","a"," ","G","i","t","a">>
}

RECURSIVE QueriesOf(_)
QueriesOf(n) ==
    IF n = 0 THEN {<<>>}
    ELSE {q \o w : q \in QueriesOf(n - 1), w \in Vocabulary}

Queries == UNION {QueriesOf(n) : n \in 0..MaxWords}

\* The pairs of queries the classifier is run on: a query and every query
\* that equals it once both are cleaned by _clean_query (itself included).
InitClassify ==
    /\ query \in Queries
    /\ other \in {o \in Queries : _clean_query(o) = _clean_query(query)}
    /\ labels = NoLabels
    /\ labelsOther = NoLabels
    /\ qpc = "init"
    /\ CleanIdle
    /\ ServerIdle

ClassifyBoth ==
    /\ qpc = "init"
    /\ labels' = Classify(query)
    /\ labelsOther' = Classify(other)
    /\ qpc' = "done"
    /\ UNCHANGED <<query, other, cleanVars, serverVars>>

NextClassify == ClassifyBoth

SpecClassify == InitClassify /\ [][NextClassify]_vars

(***************************************************************************)
(* The request handlers of fastapi_app.py: operations                      *)
(***************************************************************************)
Init ==
    /\ GROQ_API_KEY \in BOOLEAN
    /\ store = [s \in Sessions |-> <<>>]
    /\ chat = [r \in Slots |-> IdleChat]
    /\ response = NoResponse
    /\ cleared = [s \in Sessions |-> FALSE]
    /\ CleanIdle
    /\ ClassifyIdle

\* POST /chat, from the request to the suspension at the merge call (or to the
\* HTTP 500 of a step that raised before it).  A step that is not reached has
\* no outcome to choose: its outcome is fixed to "raise".
handle_chat(r, request, generated, initOk, chainOut, aggOut) ==
    LET session_id == EffectiveSessionId(request.session_id, generated)
        format_as_table == FormatAsTable(request)
        meta == Classification[request.query]
        chainOk == initOk /\ chainOut # "raise"
        saved == chainOk /\ chainOut = "answer"
        raw_rag_answer == RagAnswer(chainOut)
        cleanOk == chainOk /\ IsStr(raw_rag_answer)
        rag_answer == IF cleanOk THEN CleanedText[raw_rag_answer] ELSE <<>>
        callAgg == cleanOk /\ AggregatorInvoked(GROQ_API_KEY)
        aggOk == cleanOk /\ (callAgg => aggOut \in {"all_answered", "some_unavailable"})
        suggestions == IF callAgg /\ aggOk
                       THEN clean_suggestions(AggregatorResult(aggOut))
                       ELSE DefaultSuggestions
        trace == [request |-> request,
                  init |-> IF initOk THEN "ok" ELSE "raise",
                  chain |-> IF ~initOk THEN "skipped"
                            ELSE IF chainOut = "raise" THEN "raise" ELSE "ok",
                  chain_session |-> IF initOk THEN session_id ELSE None,
                  clean |-> IF ~chainOk THEN "skipped"
                            ELSE IF cleanOk THEN "ok" ELSE "raise",
                  aggregator |-> IF callAgg THEN
                                    (IF aggOk THEN "ok" ELSE aggOut)
                                 ELSE "skipped",
                  merge |-> IF aggOk THEN "called" ELSE "skipped",
                  want_table |-> aggOk /\ format_as_table]
    IN  /\ chat[r].pc = "idle"
        /\ ~initOk => chainOut = "raise"
        /\ ~callAgg => aggOut = "raise"
        /\ saved => Len(store[session_id]) + 2 <= 2 * MaxTurns
        /\ store' = IF saved
                    THEN HistoryAppendTurn(store, session_id, request.query,
                                           raw_rag_answer)
                    ELSE store
        /\ cleared' = [cleared EXCEPT ![session_id] = FALSE]
        /\ IF aggOk
           THEN /\ chat' = [chat EXCEPT ![r] =
                              [pc |-> "merging", session_id |-> session_id,
                               format_as_table |-> format_as_table,
                               meta |-> meta, rag_answer |-> rag_answer,
                               suggestions |-> suggestions, trace |-> trace]]
                /\ response' = NoResponse
           ELSE /\ response' = ChatResponse(trace, rag_answer, suggestions,
                                            session_id)
                /\ UNCHANGED chat
        /\ UNCHANGED <<GROQ_API_KEY, cleanVars, classifyVars>>

\* POST /chat, from the return of the merge call to the response.
handle_chat_resume(r, mergeOut) ==
    LET c == chat[r]
        merged == IF mergeOut = "text" THEN MergedAnswer ELSE NonText
        final_answer == IF mergeOut = "text" THEN CleanedText[merged]
                        ELSE <<>>
        trace == [c.trace EXCEPT !.merge = IF mergeOut = "text" THEN "ok"
                                           ELSE mergeOut]
    IN  /\ c.pc = "merging"
        /\ response' = ChatResponse(trace, final_answer, c.suggestions,
                                    c.session_id)
        /\ chat' = [chat EXCEPT ![r] = IdleChat]
        /\ UNCHANGED <<GROQ_API_KEY, store, cleared, cleanVars, classifyVars>>

\* The status clear_session answers with when it swallows the exception.
ClearStatusSwallowed(clearOk) == 200

\* clear_session: try: history.clear() ... except Exception: raise HTTP 500
ClearStatus(clearOk) == IF clearOk THEN 200 ELSE 500

\* The messages of the history response: type and cleaned content of each row.
HistoryBody(s, rows) ==
    LET messages == [i \in 1..Len(rows) |->
                        [type |-> rows[i].type,
                         content |-> CleanedText[rows[i].content]]]
    IN  [session_id |-> s, messages |-> messages, count |-> Len(messages)]

\* GET /sessions/{session_id}/history
get_chat_history_endpoint(s, readOk) ==
    /\ response' =
          IF readOk
          THEN [kind |-> "history", status |-> 200, session |-> s,
                body |-> HistoryBody(s, HistoryMessages(store, s)),
                trace |-> NoTrace, after_clear |-> cleared[s]]
          ELSE [kind |-> "history", status |-> 500, session |-> s,
                body |-> [detail |-> "Could not retrieve chat history"],
                trace |-> NoTrace, after_clear |-> cleared[s]]
    /\ UNCHANGED <<GROQ_API_KEY, store, chat, cleared, cleanVars, classifyVars>>

\* DELETE /sessions/{session_id}
clear_session(s, clearOk) ==
    /\ store' = IF clearOk THEN HistoryClear(store, s) ELSE store
    /\ response' =
          IF ClearStatus(clearOk) = 200
          THEN [kind |-> "clear", status |-> 200, session |-> s,
                body |-> [message |-> "cleared successfully"],
                trace |-> NoTrace, after_clear |-> FALSE]
          ELSE [kind |-> "clear", status |-> 500, session |-> s,
                body |-> [detail |-> "Could not clear session"],
                trace |-> NoTrace, after_clear |-> FALSE]
    /\ cleared' = IF ClearStatus(clearOk) = 200
                  THEN [cleared EXCEPT ![s] = TRUE] ELSE cleared
    /\ UNCHANGED <<GROQ_API_KEY, chat, cleanVars, classifyVars>>

\* The session traffic: chat, history and delete requests in any order.
Next ==
    \/ \E r \in Slots, request \in SessionChatRequests,
          generated \in GeneratedIds, initOk \in BOOLEAN,
          chainOut \in ChainOutcomes, aggOut \in AggregatorOutcomes :
            handle_chat(r, request, generated, initOk, chainOut, aggOut)
    \/ \E r \in Slots, mergeOut \in MergeOutcomes : handle_chat_resume(r, mergeOut)
    \/ \E s \in Sessions, readOk \in BOOLEAN : get_chat_history_endpoint(s, readOk)
    \/ \E s \in Sessions, clearOk \in BOOLEAN : clear_session(s, clearOk)

Spec == Init /\ [][Next]_vars

\* The chat pipeline: chat requests of every kind, one after another.
NextChat ==
    \/ \E r \in Slots, request \in ChatRequests,
          generated \in GeneratedIds, initOk \in BOOLEAN,
          chainOut \in ChainOutcomes, aggOut \in AggregatorOutcomes :
            handle_chat(r, request, generated, initOk, chainOut, aggOut)
    \/ \E r \in Slots, mergeOut \in MergeOutcomes : handle_chat_resume(r, mergeOut)

SpecChat == Init /\ [][NextChat]_vars

(***************************************************************************)
(* Properties of the classifier                                            *)
(***************************************************************************)
\* The labels of extract_spiritual_concept, in the order of its table.
ConceptLabels == <<
    <<"d","h","a","r","m","a">>,
    <<"k","a","r","m","a">>,
    <<"m","o","k","s","h","a">>,
    <<"a","t","m","a","n">>,
    <<"b","r","a","h","m","a","n">>,
    <<"y","o","g","a">>,
    <<"b","h","a","k","t","i">>,
    <<"j","n","a","n","a">>,
    <<"s","e","v","a">>,
    <<"r","e","i","n","c","a","r","n","a","t","i","o","n">>,
    <<"m","a","y","a">>,
    <<"n","i","r","v","a","n","a">>,
    <<"g","u","n","a">>,
    <<"s","a","n","s","k","a","r","a">>,
    <<"s","a","t","t","v","a">>,
    <<"r","a","j","a","s">>,
    <<"t","a","m","a","s">>
>>

\* The labels of extract_life_problem, in the order of its table.
ProblemLabels == <<
    <<"s","t","r","e","s","s">>,
    <<"a","n","g","e","r">>,
    <<"g","r","i","e","f">>,
    <<"p","u","r","p","o","s","e">>,
    <<"f","e","a","r">>,
    <<"r","e","l","a","t","i","o","n","s","h","i","p","s">>,
    <<"s","u","f","f","e","r","i","n","g">>,
    <<"d","e","c","i","s","i","o","n"," ","m","a","k","i","n","g">>,
    <<"m","a","t","e","r","i","a","l","i","s","m">>,
    <<"e","g","o">>,
    <<"d","e","p","r","e","s","s","i","o","n">>
>>

\* The labels of extract_scripture_source (title-cased), in the order of its table.
SourceLabels == <<
    <<"B","h","a","g","a","v","a","d"," ","G","i","t","a">>,
    <<"V","e","d","a">>,
    <<"U","p","a","n","i","s","h","a","d">>,
    <<"P","u","r","a","n","a">>,
    <<"R","a","m","a","y","a","n","a">>,
    <<"M","a","h","a","b","h","a","r","a","t","a">>,
    <<"Y","o","g","a"," ","S","u","t","r","a","s">>,
    <<"D","h","a","r","m","a"," ","S","h","a","s","t","r","a","s">>,
    <<"H","a","t","h","a"," ","Y","o","g","a"," ","P","r","a","d","i","p","i","k","a">>,
    <<"S","h","i","v","a"," ","S","u","t","r","a","s">>,
    <<"B","r","a","h","m","a"," ","S","u","t","r","a","s">>,
    <<"V","e","d","a","n","t","a">>
>>

(***************************************************************************)
(* Properties of the cleaner                                               *)
(***************************************************************************)
StarPositions(s) == {k \in 1..Len(s) : s[k] = "*"}

\* The asterisks of s form one maximal run, of 3 to 5 asterisks.
OneStarRun(s) ==
    LET ps == StarPositions(s)
    IN  /\ Cardinality(ps) \in 3..5
        /\ \A a \in ps, b \in ps : \A k \in a..b : k \in ps

\* s is one or more letters "a": a non-empty line no rule of the cleaner rewrites.
IsPlainLine(s) == s # <<>> /\ \A k \in 1..Len(s) : s[k] = "a"

\* Two plain lines separated by two or more blank (empty or whitespace-only)
\* lines: s[1..i] and s[j..] are the lines, s[i+1..j-1] is whitespace holding
\* at least three newlines.
BlankLineGaps(s) ==
    {g \in (1..Len(s)) \X (1..Len(s)) :
        /\ g[1] < g[2]
        /\ IsPlainLine(Slice(s, 1, g[1]))
        /\ IsPlainLine(Slice(s, g[2], Len(s)))
        /\ \A k \in (g[1] + 1)..(g[2] - 1) : IsSpace(s[k])
        /\ Cardinality(NewlinesIn(s, g[1] + 1, g[2] - 1)) >= 3}

\* C3: clean_response_text is idempotent: cleaning a cleaned text changes
\* nothing, for every input text, the empty one included.
CleanIdempotent == cpc = "twice" => out2 = out1

\* C8: when the only asterisks of the input form one maximal run of 3, 4 or 5
\* asterisks, the cleaned text holds exactly two asterisks.
StarRunCollapsed ==
    (cpc # "init" /\ OneStarRun(text)) => Cardinality(StarPositions(out1)) = 2

\* C9: two non-empty lines separated by two or more blank lines in the input
\* are separated by exactly one blank line in the cleaned text.
BlankLinesCollapsed ==
    cpc # "init" =>
        \A g \in BlankLineGaps(text) :
            out1 = Slice(text, 1, g[1]) \o <<NL, NL>> \o Slice(text, g[2], Len(text))

SetMin(S) == CHOOSE m \in S : \A k \in S : m <= k

\* The table entries having a keyword that occurs in the lowercased query.
Hits(table, q) ==
    {i \in 1..Len(table) :
        \E j \in 1..Len(table[i].kws) :
            \E p \in 1..Len(q) :
                LET kw == table[i].kws[j]
                IN  /\ p + Len(kw) - 1 <= Len(q)
                    /\ \A k \in 1..Len(kw) : LowerChar(q[p + k - 1]) = kw[k]}

Range(f) == {f[i] : i \in DOMAIN f}

\* l is the label of the earliest-declared entry that is hit, one of the fixed
\* labels, and the default exactly when no entry is hit.
IsEarliestLabel(l, table, labelList, default, q) ==
    LET hits == Hits(table, q)
    IN  /\ l = IF hits = {} THEN default ELSE labelList[SetMin(hits)]
        /\ l \in Range(labelList) \cup {default}
        /\ (l = default) <=> (hits = {})

LabelsAreEarliest(q, l) ==
    /\ IsEarliestLabel(l.spiritual_concept, concepts, ConceptLabels, DefaultConcept, q)
    /\ IsEarliestLabel(l.life_problem, problems, ProblemLabels, DefaultProblem, q)
    /\ IsEarliestLabel(l.scripture_source, sources, SourceLabels, DefaultSource, q)

\* C4: each extractor returns one label of its fixed label set: the label of
\* the category declared earliest in its table among those with a keyword
\* occurring in the lowercased query (for extract_scripture_source the
\* category's title-cased name), and the default exactly when no keyword of
\* any category occurs.
ExtractorsReturnEarliest ==
    qpc = "done" =>
        LabelsAreEarliest(query, labels) /\ LabelsAreEarliest(other, labelsOther)

\* C4 witness: "karma dharma" names karma first and is labelled dharma, the
\* category declared first.
ExtractorsReturnEarliestWitness ==
    /\ qpc = "done"
    /\ query = <<"k","a","r","m","a"," ","d","h","a","r","m","a">>
    /\ Hits(concepts, query) = {1, 2}
    /\ labels.spiritual_concept = <<"d","h","a","r","m","a">>

\* C10 as stated: two queries that are equal after lowercasing and removing
\* all punctuation receive the same labels.
LabelsFollowCleanedText ==
    (qpc = "done" /\ _clean_query(query) = _clean_query(other))
        => labels = labelsOther

\* C10 amended: two queries that are equal after lowercasing receive the same
\* label from each extractor.
LabelsFollowLoweredText ==
    (qpc = "done" /\ Lower(query) = Lower(other)) => labels = labelsOther

\* C10 witness: two different queries, equal after lowercasing, labelled alike
\* with a label other than the default.
LabelsFollowLoweredTextWitness ==
    /\ qpc = "done"
    /\ query # other
    /\ Lower(query) = Lower(other)
    /\ labels = labelsOther
    /\ labels.spiritual_concept # DefaultConcept

(***************************************************************************)
(* Properties of the request handlers                                      *)
(***************************************************************************)
\* C1: every POST /chat request ends in exactly one of two outcomes: a
\* response with exactly the fields answer, suggestions and session_id, when
\* no step raised; or HTTP 500 carrying only an error detail, when a step
\* (initialisation, chain, aggregator, merge or cleaning) raised.
ChatAllOrNothing ==
    response.kind = "chat" =>
        \/ /\ response.status = 200
           /\ ~Raised(response.trace)
           /\ DOMAIN response.body = {"answer", "suggestions", "session_id"}
        \/ /\ response.status = 500
           /\ Raised(response.trace)
           /\ DOMAIN response.body = {"detail"}

\* C1 witness: the merge call raised, after the retrieval answer and the
\* suggestions were there, and the request ended in HTTP 500.
ChatAllOrNothingWitness ==
    /\ response.kind = "chat"
    /\ response.status = 500
    /\ response.trace.chain = "ok"
    /\ response.trace.merge = "raise"

\* C2: with the auxiliary API key unset the aggregator is never called, the
\* merge step is still called once the chain has answered, and when the chain
\* and the merge both succeed the response is a 200 whose suggestions map
\* exactly llama, mixtral and gemma to "N/A".
KeyUnsetStillAnswers ==
    ~GROQ_API_KEY =>
        /\ \A r \in Slots :
              chat[r].pc = "merging" =>
                 /\ chat[r].trace.aggregator = "skipped"
                 /\ chat[r].trace.merge = "called"
        /\ response.kind = "chat" =>
              /\ response.trace.aggregator = "skipped"
              /\ (response.trace.chain = "ok" /\ response.trace.clean = "ok")
                    => response.trace.merge # "skipped"
              /\ (response.trace.chain = "ok" /\ response.trace.merge = "ok")
                    => /\ response.status = 200
                       /\ DOMAIN response.body.suggestions
                             = {"llama", "mixtral", "gemma"}
                       /\ \A m \in {"llama", "mixtral", "gemma"} :
                             response.body.suggestions[m] = <<"N","/","A">>

\* C2 witness: a 200 response with all-"N/A" suggestions while the key is unset.
KeyUnsetStillAnswersWitness ==
    /\ ~GROQ_API_KEY
    /\ response.kind = "chat"
    /\ response.status = 200
    /\ response.trace.merge = "ok"
    /\ response.body.suggestions = DefaultSuggestions

\* Some formatting keyword occurs in the lowercased query.
HasFormattingKeyword(q) ==
    \E j \in 1..Len(FORMATTING_KEYWORDS) :
        \E p \in 1..Len(q) :
            LET kw == FORMATTING_KEYWORDS[j]
            IN  /\ p + Len(kw) - 1 <= Len(q)
                /\ \A k \in 1..Len(kw) : LowerChar(q[p + k - 1]) = kw[k]

\* C7: the tabular flag handed to the merge step is true exactly when a
\* formatting keyword occurs in the lowercased query, whatever the request's
\* format_table field is.
TableFlagFromQuery ==
    /\ \A r \in Slots :
          chat[r].pc = "merging" =>
             /\ chat[r].format_as_table
                   <=> HasFormattingKeyword(chat[r].trace.request.query)
             /\ chat[r].trace.want_table = chat[r].format_as_table
    /\ (response.kind = "chat" /\ response.trace.merge # "skipped") =>
          (response.trace.want_table
              <=> HasFormattingKeyword(response.trace.request.query))

\* C7 witness: a request with format_table set whose query names no
\* formatting keyword is at the merge step with the flag false.
TableFlagFromQueryWitness ==
    \E r \in Slots :
        /\ chat[r].pc = "merging"
        /\ chat[r].trace.request.format_table
        /\ ~chat[r].format_as_table
        /\ ~chat[r].trace.want_table

\* C5: a history response counts the messages it returns, and a history
\* response for a session that a successful DELETE cleared, with no /chat for
\* that session since, has no messages and count 0.
HistoryEmptyAfterClear ==
    (response.kind = "history" /\ response.status = 200) =>
        /\ response.body.count = Len(response.body.messages)
        /\ response.after_clear =>
              (response.body.messages = <<>> /\ response.body.count = 0)

\* C5 witness: a chat for the session was suspended at its merge call when the
\* DELETE and then the GET arrived; the GET returned no message.
HistoryEmptyAfterClearWitness ==
    /\ response.kind = "history"
    /\ response.status = 200
    /\ response.after_clear
    /\ response.body.count = 0
    /\ \E r \in Slots :
          chat[r].pc = "merging" /\ chat[r].session_id = response.session

\* The session id a chat request supplies, if it supplies a non-empty one.
Supplies(request) == request.session_id \notin {None, ""}

\* The supplied session id is the one given to the chain and echoed.
SessionEchoed ==
    /\ \A r \in Slots :
          (chat[r].pc = "merging" /\ Supplies(chat[r].trace.request)) =>
             /\ chat[r].session_id = chat[r].trace.request.session_id
             /\ chat[r].trace.chain_session = chat[r].trace.request.session_id
    /\ (response.kind = "chat" /\ Supplies(response.trace.request)) =>
          /\ response.trace.chain # "skipped" =>
                response.trace.chain_session = response.trace.request.session_id
          /\ response.status = 200 =>
                response.body.session_id = response.trace.request.session_id

\* C6: a step of a request for session s leaves the log of every other
\* session unchanged, and a supplied non-empty session id is the one given to
\* the chain and echoed in the response.  The request that took the step is
\* the chat that has just suspended, else the one response' answers; its
\* session is the id it supplied, else the id the handler used.
OwnSessionOnly ==
    [][LET started == {r \in Slots : chat[r].pc = "idle" /\ chat'[r].pc = "merging"}
           request == IF started # {}
                      THEN chat'[CHOOSE r \in started : TRUE].trace.request
                      ELSE response'.trace.request
           used == IF started # {}
                   THEN chat'[CHOOSE r \in started : TRUE].session_id
                   ELSE response'.session
           s == IF Supplies(request) THEN request.session_id ELSE used
       IN  /\ \A t \in Sessions : t # s => store'[t] = store[t]
           /\ SessionEchoed'
      ]_vars

\* C6 witness: both supplied sessions hold a log and a request that supplied
\* "s1" was answered with session_id "s1".
OwnSessionOnlyWitness ==
    /\ response.kind = "chat"
    /\ response.status = 200
    /\ response.trace.request.session_id = "s1"
    /\ response.body.session_id = "s1"
    /\ store["s1"] # <<>>
    /\ store["s2"] # <<>>

=============================================================================
